---- MODULE Spec2Model ----
(***************************************************************************)
(* Model of the genesis generator's TEE metadata code (package             *)
(* beaconutils: Resolver and Injector) and of the Electra builder          *)
(* (package beaconchain: BuildState and Serialize).                        *)
(*                                                                         *)
(* Go values are modelled as follows.                                      *)
(*   - a []byte is a reference into `heap`, a map from references to byte  *)
(*     sequences; reference NilRef is the nil slice.  make() allocates a   *)
(*     new reference, copy() overwrites a prefix, and buffers no root      *)
(*     refers to any more are collected (Go's garbage collector);          *)
(*   - a string is the sequence of its code points;                        *)
(*   - a header passed as interface{} is a record: what was passed (kind), *)
(*     the declared shape of the struct behind the pointer, and the        *)
(*     values of its fields.                                               *)
(***************************************************************************)
EXTENDS Integers, Sequences, FiniteSets, TLC

\* ------------------------------------------------------------------------
\* Bounds of the model (not program constants).
\* ------------------------------------------------------------------------
MaxArrayLen == 3    \* longest fixed-length blob field of a small test header
MaxBlobLen  == 2    \* longest blob handed directly to applyTEEToHeader
MaxRefs     == 6    \* references available to the allocator

\* ------------------------------------------------------------------------
\* Byte buffers: make, copy, slicing, bytes.Repeat.
\* ------------------------------------------------------------------------
NilRef == 0
Refs   == 1..MaxRefs

\* s[:n] and s[n:] (n counted in elements).
Prefix(s, n) == SubSeq(s, 1, n)
Suffix(s, n) == SubSeq(s, n + 1, Len(s))

Zeros(n) == [i \in 1..n |-> 0]

\* copy(dst, src): the first min(len(dst), len(src)) bytes of dst are replaced.
Copy(dst, src) ==
    IF Len(src) >= Len(dst) THEN Prefix(src, Len(dst))
    ELSE src \o Suffix(dst, Len(src))

\* bytes.Repeat's fill loop: nb[:bp] holds copies of b; each round doubles it.
RECURSIVE RepeatFill(_, _)
RepeatFill(nb, bp) ==
    IF bp >= Len(nb) THEN nb
    ELSE RepeatFill(Prefix(nb, bp) \o Copy(Suffix(nb, bp), Prefix(nb, bp)), 2 * bp)

\* bytes.Repeat(b, count): count copies of b.
Repeat(b, count) ==
    IF count = 0 \/ Len(b) = 0 THEN <<>>
    ELSE RepeatFill(Copy(Zeros(Len(b) * count), b), Len(b))

\* ------------------------------------------------------------------------
\* Package variables of beaconutils.
\* ------------------------------------------------------------------------
TEETypeSEV == 0
TEETypeTDX == 1
TEETypeCCA == 2
defaultTEEType == TEETypeSEV

teeQuoteSize == 8192

\* "PoTE-genesis-TEE" as code points.
teeQuoteChunk == <<80, 111, 84, 69, 45, 103, 101, 110, 101, 115, 105, 115, 45, 84, 69, 69>>

\* makeTEEQuote() / init(): chunk repeated and cut to 8192 bytes, copied into
\* the 8192 zero bytes the package variable was made with.
makeTEEQuote ==
    LET chunk  == teeQuoteChunk
        repeat == (teeQuoteSize + Len(chunk) - 1) \div Len(chunk)
        buf    == Repeat(chunk, repeat)
    IN  Copy(Zeros(teeQuoteSize), Prefix(buf, teeQuoteSize))

\* The reference of the package variable hardcodedTEEQuote's backing array.
hardcodedTEEQuote == 1

\* ------------------------------------------------------------------------
\* The heap of byte buffers.
\* ------------------------------------------------------------------------
\* len(s) and the bytes of slice s; the nil slice has none.
Bytes(hp, ref) == IF ref = NilRef THEN <<>> ELSE hp[ref]

\* make([]byte, n) followed by filling it with buf: the least unused reference.
NewRef(hp) == CHOOSE r \in Refs \ DOMAIN hp : \A s \in Refs \ DOMAIN hp : r <= s
Alloc(hp, buf) == hp @@ (NewRef(hp) :> buf)

\* Garbage collection: only the buffers some root refers to stay.
Collect(hp, roots) == [r \in DOMAIN hp \cap roots |-> hp[r]]

\* ------------------------------------------------------------------------
\* reflect: kinds and the setters applyTEEType / writeArray switch on.
\* ------------------------------------------------------------------------
UintKinds == {"uint8", "uint16", "uint32", "uint64", "uint", "uintptr"}
IntKinds  == {"int8", "int16", "int32", "int64", "int"}

\* Width of an integer kind in bits.
Bits(kind) ==
    CASE kind \in {"uint8", "int8"}   -> 8
      [] kind \in {"uint16", "int16"} -> 16
      [] kind \in {"uint32", "int32"} -> 32
      [] OTHER                        -> 64

\* reflect.Value.SetUint(x): x converted to the field's width.  Every x the
\* model passes is below 2^16, so only the 8-bit kinds can cut it.
SetUint(kind, x) == IF Bits(kind) = 8 THEN x % 256 ELSE x

\* reflect.Value.SetInt(x): x converted to the field's signed width (int8(x)
\* keeps the low 8 bits, read as two's complement).
SetInt(kind, x) ==
    IF Bits(kind) = 8
    THEN LET m == x % 256 IN IF m >= 128 THEN m - 256 ELSE m
    ELSE x

\* ------------------------------------------------------------------------
\* The header handed to the Injector as interface{}.
\*   kind  : "nil" (nil interface), "value" (a struct passed by value),
\*           "nilptr" (typed nil pointer), "ptr" (pointer to a struct),
\*           "ptrscalar" (pointer to a non-struct value)
\*   tkind : kind of field ProposerTEEType, "absent" when the type has none
\*   qkind : "absent", "array", "slice" or another kind, of ProposerTEEQuote
\*   qelem : element kind of the array or slice
\*   Slot  : a field the Injector has no business with
\*   tval  : value of ProposerTEEType
\*   qarr  : elements of an array ProposerTEEQuote
\*   qref  : reference held by a slice ProposerTEEQuote
\* ------------------------------------------------------------------------
teeTypeField  == "ProposerTEEType"
teeQuoteField == "ProposerTEEQuote"

\* elem.FieldByName(name).IsValid(): the struct type declares the field.
\* Both names are exported and the struct is reached through a pointer, so a
\* valid field is always settable (CanSet).
FieldIsValid(h, name) ==
    IF name = teeTypeField THEN h.tkind # "absent" ELSE h.qkind # "absent"

applyTEEType(h, teeType) ==
    IF ~FieldIsValid(h, teeTypeField) THEN h
    ELSE LET value == teeType IN
         CASE h.tkind \in UintKinds -> [h EXCEPT !.tval = SetUint(h.tkind, value)]
           [] h.tkind \in IntKinds  -> [h EXCEPT !.tval = SetInt(h.tkind, value)]
           [] OTHER                 -> h

\* writeArray: every element of the array is written, with the blob's byte
\* while there is one and 0 after; elements of a non-integer kind are skipped.
writeArray(arr, elemKind, teeQuote) ==
    LET length == Len(arr)
        m      == Len(teeQuote)
    IN  [i \in 1..length |->
            LET value == IF i <= m THEN teeQuote[i] ELSE 0 IN
            CASE elemKind \in UintKinds -> SetUint(elemKind, value)
              [] elemKind \in IntKinds  -> SetInt(elemKind, value)
              [] OTHER                  -> arr[i]]

\* A variant of applyTEEQuote that hands the blob itself to SetBytes instead of
\* a copy of it.
applyTEEQuoteShared(h, hp, teeQuote) ==
    IF ~FieldIsValid(h, teeQuoteField) THEN [h |-> h, heap |-> hp]
    ELSE CASE h.qkind = "array" ->
                [h    |-> [h EXCEPT !.qarr = writeArray(h.qarr, h.qelem, Bytes(hp, teeQuote))],
                 heap |-> hp]
           [] h.qkind = "slice" /\ h.qelem = "uint8" ->
                [h |-> [h EXCEPT !.qref = teeQuote], heap |-> hp]
           [] OTHER -> [h |-> h, heap |-> hp]

\* applyTEEQuote: the result is the header and the heap (the slice case makes
\* a new buffer and copies the blob into it).
applyTEEQuote(h, hp, teeQuote) ==
    IF ~FieldIsValid(h, teeQuoteField) THEN [h |-> h, heap |-> hp]
    ELSE CASE h.qkind = "array" ->
                [h    |-> [h EXCEPT !.qarr = writeArray(h.qarr, h.qelem, Bytes(hp, teeQuote))],
                 heap |-> hp]
           [] h.qkind = "slice" /\ h.qelem = "uint8" ->
                LET tmp == Copy(Zeros(Len(Bytes(hp, teeQuote))), Bytes(hp, teeQuote)) IN
                [h    |-> [h EXCEPT !.qref = NewRef(hp)],
                 heap |-> Alloc(hp, tmp)]
           [] OTHER -> [h |-> h, heap |-> hp]

\* A variant of applyTEEToHeader that writes the two fields together or not at
\* all.
applyTEEToHeaderBoth(h, hp, teeType, teeQuote) ==
    IF h.kind \notin {"ptr", "ptrscalar"} THEN [h |-> h, heap |-> hp, panicked |-> FALSE]
    ELSE IF h.kind = "ptrscalar" THEN [h |-> h, heap |-> hp, panicked |-> TRUE]
    ELSE IF ~FieldIsValid(h, teeTypeField) \/ ~FieldIsValid(h, teeQuoteField)
    THEN [h |-> h, heap |-> hp, panicked |-> FALSE]
    ELSE LET r == applyTEEQuote(applyTEEType(h, teeType), hp, teeQuote)
         IN  [h |-> r.h, heap |-> r.heap, panicked |-> FALSE]

\* A variant of applyTEEToHeader that appends the blob to a slice field's
\* bytes instead of replacing them.
applyTEEToHeaderAppend(h, hp, teeType, teeQuote) ==
    IF h.kind # "ptr" \/ h.qkind # "slice" \/ h.qelem # "uint8"
    THEN [h |-> h, heap |-> hp, panicked |-> h.kind = "ptrscalar"]
    ELSE [h        |-> [applyTEEType(h, teeType) EXCEPT !.qref = NewRef(hp)],
          heap     |-> Alloc(hp, Bytes(hp, h.qref) \o Bytes(hp, teeQuote)),
          panicked |-> FALSE]

\* applyTEEToHeader: [h, heap, panicked].  FieldByName panics on a value that
\* is not a struct.
applyTEEToHeader(h, hp, teeType, teeQuote) ==
    IF h.kind = "nil" THEN [h |-> h, heap |-> hp, panicked |-> FALSE]
    ELSE IF h.kind \notin {"ptr", "ptrscalar"}
    THEN [h |-> h, heap |-> hp, panicked |-> FALSE]
    ELSE IF h.kind = "ptrscalar"
    THEN [h |-> h, heap |-> hp, panicked |-> TRUE]
    ELSE LET r == applyTEEQuote(applyTEEType(h, teeType), hp, teeQuote)
         IN  [h |-> r.h, heap |-> r.heap, panicked |-> FALSE]

\* ApplyDefaultTEEToHeader
ApplyDefaultTEEToHeader(h, hp) ==
    applyTEEToHeader(h, hp, defaultTEEType, hardcodedTEEQuote)

\* ------------------------------------------------------------------------
\* Strings (sequences of code points): strings.TrimSpace, strings.ToLower.
\* ------------------------------------------------------------------------
\* unicode.IsSpace, for the code points below U+0100.
IsSpace(c) == c \in {9, 10, 11, 12, 13, 32, 133, 160}

RECURSIVE TrimLeft(_)
TrimLeft(s) == IF Len(s) > 0 /\ IsSpace(Head(s)) THEN TrimLeft(Tail(s)) ELSE s

RECURSIVE TrimRight(_)
TrimRight(s) ==
    IF Len(s) > 0 /\ IsSpace(s[Len(s)]) THEN TrimRight(Prefix(s, Len(s) - 1)) ELSE s

TrimSpace(s) == TrimRight(TrimLeft(s))

\* unicode.ToLower: A-Z, the Latin-1 capitals, and the two code points above
\* them whose lower case is an ASCII letter (U+0130 -> i, U+212A -> k).
ToLowerRune(c) ==
    CASE c >= 65 /\ c <= 90              -> c + 32
      [] c >= 192 /\ c <= 222 /\ c # 215 -> c + 32
      [] c = 304                         -> 105
      [] c = 8490                        -> 107
      [] OTHER                           -> c

ToLower(s) == [i \in 1..Len(s) |-> ToLowerRune(s[i])]

\* teeTypeLookup: "sev", "tdx", "cca".
teeTypeLookup ==
    (<<115, 101, 118>> :> defaultTEEType) @@
    (<<116, 100, 120>> :> TEETypeTDX) @@
    (<<99, 99, 97>>    :> TEETypeCCA)

\* A variant of the lookup that gives the default vendor for an unknown name.
TEETypeFromStringDefault(name) ==
    LET key == ToLower(TrimSpace(name)) IN
    IF key \in DOMAIN teeTypeLookup
    THEN [teeType |-> teeTypeLookup[key], found |-> TRUE]
    ELSE [teeType |-> defaultTEEType, found |-> TRUE]

\* TEETypeFromString: a missing key gives the zero TEEType and found = FALSE.
TEETypeFromString(name) ==
    LET key == ToLower(TrimSpace(name)) IN
    IF key \in DOMAIN teeTypeLookup
    THEN [teeType |-> teeTypeLookup[key], found |-> TRUE]
    ELSE [teeType |-> 0, found |-> FALSE]

\* ------------------------------------------------------------------------
\* beaconconfig.Config: the keys the Resolver and BuildState's timing read.
\*   names   : [ok, val] of TEE_VENDOR_FROM_MNEMONICS
\*   vendor, proposer : the unsigned value of TEE_VENDOR and of
\*             TEE_PROPOSER_VENDOR, Unset when the key is not configured
\*   genesisDelay, minGenesisTime : GENESIS_DELAY and MIN_GENESIS_TIME
\* ------------------------------------------------------------------------
Unset == -1

\* cfg.GetString(key): the value and whether the key is set.
GetString(c, key) ==
    IF key = "TEE_VENDOR_FROM_MNEMONICS" THEN c.names
    ELSE [ok |-> FALSE, val |-> <<>>]

\* cfg.GetUintDefault(key, defaultValue): the value, the default when unset.
GetUintDefault(c, key, defaultValue) ==
    LET v == CASE key = "TEE_VENDOR"          -> c.vendor
               [] key = "TEE_PROPOSER_VENDOR" -> c.proposer
               [] OTHER                       -> Unset
    IN  IF v = Unset THEN defaultValue ELSE v

\* The Builder's timing keys hold a uint64 (four limbs, see below): NoU64
\* when the key is not configured.
NoU64 == <<>>

\* cfg.GetUintDefault(key, defaultValue) on the Builder's timing keys.
GetUint64Default(c, key, defaultValue) ==
    LET v == CASE key = "GENESIS_DELAY"    -> c.genesisDelay
               [] key = "MIN_GENESIS_TIME" -> c.minGenesisTime
               [] OTHER                    -> NoU64
    IN  IF v = NoU64 THEN defaultValue ELSE v

\* ------------------------------------------------------------------------
\* The Resolver.
\* ------------------------------------------------------------------------
teeVendorMin == 0
teeVendorMax == 2

NoError == "nil"

\* A variant of the Resolver whose proposer override defaults to the least
\* vendor instead of TEE_VENDOR.
ResolverProposerDefaultMin(c, hp) ==
    LET quoteBytes == NewRef(hp)
        hp2   == Alloc(hp, Copy(Zeros(teeQuoteSize), Bytes(hp, hardcodedTEEQuote)))
        str   == GetString(c, "TEE_VENDOR_FROM_MNEMONICS")
        look  == TEETypeFromString(str.val)
        found == str.ok /\ str.val # <<>> /\ look.found
        defaultVendor  == GetUintDefault(c, "TEE_VENDOR", teeVendorMin)
        proposerVendor == GetUintDefault(c, "TEE_PROPOSER_VENDOR", teeVendorMin)
        ret(t, e) == [teeType |-> t, quote |-> quoteBytes, err |-> e, heap |-> hp2]
    IN  IF found THEN ret(look.teeType % 256, NoError)
        ELSE IF defaultVendor < teeVendorMin \/ defaultVendor > teeVendorMax
        THEN ret(0, "invalid TEE_VENDOR value")
        ELSE IF proposerVendor < teeVendorMin \/ proposerVendor > teeVendorMax
        THEN ret(0, "invalid TEE_PROPOSER_VENDOR value")
        ELSE ret(proposerVendor % 256, NoError)

\* A variant of the Resolver that range-checks TEE_VENDOR before it looks at
\* the mnemonic name.
ResolverVendorFirst(c, hp) ==
    LET quoteBytes == NewRef(hp)
        hp2   == Alloc(hp, Copy(Zeros(teeQuoteSize), Bytes(hp, hardcodedTEEQuote)))
        str   == GetString(c, "TEE_VENDOR_FROM_MNEMONICS")
        look  == TEETypeFromString(str.val)
        found == str.ok /\ str.val # <<>> /\ look.found
        defaultVendor  == GetUintDefault(c, "TEE_VENDOR", teeVendorMin)
        proposerVendor == GetUintDefault(c, "TEE_PROPOSER_VENDOR", defaultVendor)
        ret(t, e) == [teeType |-> t, quote |-> quoteBytes, err |-> e, heap |-> hp2]
    IN  IF defaultVendor < teeVendorMin \/ defaultVendor > teeVendorMax
        THEN ret(0, "invalid TEE_VENDOR value")
        ELSE IF found THEN ret(look.teeType % 256, NoError)
        ELSE IF proposerVendor < teeVendorMin \/ proposerVendor > teeVendorMax
        THEN ret(0, "invalid TEE_PROPOSER_VENDOR value")
        ELSE ret(proposerVendor % 256, NoError)

\* A variant of the Resolver that returns the package's blob itself instead
\* of a copy of it.
ResolverSharedBlob(c, hp) ==
    LET str   == GetString(c, "TEE_VENDOR_FROM_MNEMONICS")
        look  == TEETypeFromString(str.val)
        found == str.ok /\ str.val # <<>> /\ look.found
        defaultVendor  == GetUintDefault(c, "TEE_VENDOR", teeVendorMin)
        proposerVendor == GetUintDefault(c, "TEE_PROPOSER_VENDOR", defaultVendor)
        ret(t, e) == [teeType |-> t, quote |-> hardcodedTEEQuote, err |-> e, heap |-> hp]
    IN  IF found THEN ret(look.teeType % 256, NoError)
        ELSE IF defaultVendor < teeVendorMin \/ defaultVendor > teeVendorMax
        THEN ret(0, "invalid TEE_VENDOR value")
        ELSE IF proposerVendor < teeVendorMin \/ proposerVendor > teeVendorMax
        THEN ret(0, "invalid TEE_PROPOSER_VENDOR value")
        ELSE ret(proposerVendor % 256, NoError)

\* GetGenesisProposerTEEFields: [teeType, quote, err, heap]; quote is the
\* reference of the new buffer the default blob was copied into.
GetGenesisProposerTEEFields(c, hp) ==
    LET quoteBytes == NewRef(hp)
        hp2   == Alloc(hp, Copy(Zeros(teeQuoteSize), Bytes(hp, hardcodedTEEQuote)))
        str   == GetString(c, "TEE_VENDOR_FROM_MNEMONICS")
        look  == TEETypeFromString(str.val)
        found == str.ok /\ str.val # <<>> /\ look.found
        defaultVendor  == GetUintDefault(c, "TEE_VENDOR", teeVendorMin)
        proposerVendor == GetUintDefault(c, "TEE_PROPOSER_VENDOR", defaultVendor)
        ret(t, e) == [teeType |-> t, quote |-> quoteBytes, err |-> e, heap |-> hp2]
    IN  IF found THEN ret(look.teeType % 256, NoError)
        ELSE IF defaultVendor < teeVendorMin \/ defaultVendor > teeVendorMax
        THEN ret(0, "invalid TEE_VENDOR value")
        ELSE IF proposerVendor < teeVendorMin \/ proposerVendor > teeVendorMax
        THEN ret(0, "invalid TEE_PROPOSER_VENDOR value")
        ELSE ret(proposerVendor % 256, NoError)

\* ApplyTEEToHeaderFromConfig: c is NilConfig for a nil *Config.
NilConfig == [isNil |-> TRUE, names |-> [ok |-> FALSE, val |-> <<>>],
              vendor |-> Unset, proposer |-> Unset,
              genesisDelay |-> NoU64, minGenesisTime |-> NoU64]

\* A variant that leaves the header alone when the Resolver returns an error.
ApplyFromConfigNoFallback(h, c, hp) ==
    IF c.isNil THEN ApplyDefaultTEEToHeader(h, hp)
    ELSE LET r == GetGenesisProposerTEEFields(c, hp) IN
         IF r.err # NoError THEN [h |-> h, heap |-> r.heap, panicked |-> FALSE]
         ELSE applyTEEToHeader(h, r.heap, r.teeType, r.quote)

ApplyTEEToHeaderFromConfig(h, c, hp) ==
    IF c.isNil THEN ApplyDefaultTEEToHeader(h, hp)
    ELSE LET r == GetGenesisProposerTEEFields(c, hp) IN
         IF r.err # NoError THEN ApplyDefaultTEEToHeader(h, r.heap)
         ELSE applyTEEToHeader(h, r.heap, r.teeType, r.quote)

\* ------------------------------------------------------------------------
\* uint64 values of the Builder, as four limbs of 16 bits, least
\* significant first.
\* ------------------------------------------------------------------------
Limb == 65536

U64(n) == <<n % Limb, (n \div Limb) % Limb, 0, 0>>

MaxUint64 == <<Limb - 1, Limb - 1, Limb - 1, Limb - 1>>

\* a + b of two uint64: the carry out of the last limb is dropped.
RECURSIVE AddLimbs(_, _, _, _)
AddLimbs(a, b, i, carry) ==
    IF i > Len(a) THEN <<>>
    ELSE LET s == a[i] + b[i] + carry
         IN  <<s % Limb>> \o AddLimbs(a, b, i + 1, s \div Limb)

\* A sum that does not wrap: it stays at the maximum.
AddU64Saturating(a, b) ==
    LET wide == AddLimbs(a \o <<0>>, b \o <<0>>, 1, 0)
    IN  IF wide[5] # 0 THEN MaxUint64 ELSE SubSeq(wide, 1, 4)

AddU64(a, b) == AddLimbs(a, b, 1, 0)

\* ------------------------------------------------------------------------
\* types.Block, as far as BuildState reads it.
\*   extra : len(block.Extra())        withdrawals : Withdrawals() != nil
\*   blobGasUsed, excessBlobGas : the field is present (not a nil pointer)
\*   time  : block.Time()
\* ------------------------------------------------------------------------
NoBlock ==
    [isNil |-> TRUE, extra |-> 0, withdrawals |-> FALSE, blobGasUsed |-> FALSE,
     excessBlobGas |-> FALSE, time |-> U64(0)]

\* spec.VersionedBeaconState: the tag and the variants; a variant is NoState
\* (a nil pointer) or a state.
NoState == [isNil |-> TRUE, GenesisTime |-> U64(0), hasHeader |-> FALSE]

Versions == <<"phase0", "altair", "bellatrix", "capella", "deneb", "electra">>

DataVersionElectra == "electra"

NoVersioned ==
    [isNil |-> TRUE, Version |-> "unknown",
     variants |-> [v \in {Versions[i] : i \in 1..Len(Versions)} |-> NoState]]

\* ------------------------------------------------------------------------
\* State.
\*   heap     : the byte buffers (heap[hardcodedTEEQuote] is the package's)
\*   header   : the header under the Injector
\*   cfg      : the configuration
\*   resolved : what the last call of the Resolver returned to its caller
\*   call     : the last call of the Injector, with what the caller passed
\*              and saw
\*   bld      : the electraBuilder (its blocks; its clConfig is cfg)
\*   run      : the call of BuildState: where it is, its locals, the steps
\*              it ran and what it returned
\*   ser      : the last call of Serialize: its arguments, what the codec
\*              gave, what was logged and what it returned
\*   lookup   : a name, and what TEETypeFromString returned for it
\* ------------------------------------------------------------------------
VARIABLES heap, header, cfg, resolved, call, bld, run, ser, lookup

vars == <<heap, header, cfg, resolved, call, bld, run, ser, lookup>>

\* What a caller can read of a header: its field values, a slice by content.
View(h, hp) ==
    [Slot |-> h.Slot, tval |-> h.tval, qarr |-> h.qarr,
     qnil |-> h.qref = NilRef, qbytes |-> Bytes(hp, h.qref)]

\* The end of a step: the buffers no root refers to are collected, and the
\* references are renumbered in the order of the roots (a program cannot tell
\* one numbering from another).
RootOrder(h, res, c) == <<hardcodedTEEQuote, res.quote, h.qref, c.quote>>

Rank(order, r) ==
    IF r = NilRef THEN NilRef
    ELSE LET first == CHOOSE i \in 1..Len(order) :
                          order[i] = r /\ \A j \in 1..(i - 1) : order[j] # r
         IN  Cardinality({order[j] : j \in 1..first} \ {NilRef})

Settle(h, res, c, hp) ==
    LET order == RootOrder(h, res, c)
        live  == {order[i] : i \in 1..Len(order)} \ {NilRef}
    IN  [header   |-> [h EXCEPT !.qref = Rank(order, @)],
         resolved |-> [res EXCEPT !.quote = Rank(order, @)],
         call     |-> [c EXCEPT !.quote = Rank(order, @)],
         heap     |-> [n \in {Rank(order, r) : r \in live} |->
                          hp[CHOOSE r \in live : Rank(order, r) = n]]]

Step(s) ==
    /\ header' = s.header
    /\ resolved' = s.resolved
    /\ call' = s.call
    /\ heap' = s.heap
    /\ UNCHANGED <<cfg, bld, run, ser, lookup>>

\* Headers of every shape, new (all zero) or already filled.
NoStruct(kind) ==
    [kind |-> kind, tkind |-> "absent", qkind |-> "absent", qelem |-> "none",
     Slot |-> 0, tval |-> 0, qarr |-> <<>>, qref |-> NilRef]

TypeKindInputs  == {"absent", "uint8", "uint64", "int8", "int64", "string"}
ElemKindInputs  == {"uint8", "int8", "bool"}
SliceElemInputs == {"uint8", "uint16"}
FillInputs      == {0, 9}

\* A filled header's slice field refers to a buffer of its own.
OwnRef == 2

StructHeaders ==
    {[kind |-> "ptr", tkind |-> tk, qkind |-> "absent", qelem |-> "none",
      Slot |-> 7, tval |-> f, qarr |-> <<>>, qref |-> NilRef]
        : tk \in TypeKindInputs, f \in FillInputs}
    \cup
    {[kind |-> "ptr", tkind |-> tk, qkind |-> "string", qelem |-> "none",
      Slot |-> 7, tval |-> f, qarr |-> <<>>, qref |-> NilRef]
        : tk \in TypeKindInputs, f \in FillInputs}
    \cup
    UNION {{[kind |-> "ptr", tkind |-> tk, qkind |-> "array", qelem |-> ek,
             Slot |-> 7, tval |-> f, qarr |-> [i \in 1..n |-> f], qref |-> NilRef]
               : tk \in TypeKindInputs, f \in FillInputs, ek \in ElemKindInputs}
           : n \in 0..MaxArrayLen}
    \cup
    {[kind |-> "ptr", tkind |-> tk, qkind |-> "slice", qelem |-> ek,
      Slot |-> 7, tval |-> f, qarr |-> <<>>,
      qref |-> IF f = 0 \/ ek # "uint8" THEN NilRef ELSE OwnRef]
        : tk \in TypeKindInputs, f \in FillInputs, ek \in SliceElemInputs}

HeaderInputs ==
    {NoStruct(k) : k \in {"nil", "value", "nilptr", "ptrscalar"}} \cup StructHeaders

InitHeap(h) ==
    IF h.qref = OwnRef
    THEN (hardcodedTEEQuote :> makeTEEQuote) @@ (OwnRef :> <<9, 9>>)
    ELSE (hardcodedTEEQuote :> makeTEEQuote)

NoView == View(NoStruct("nil"), <<>>)

NoCall ==
    [n |-> 0, api |-> "none", tag |-> 0, quote |-> NilRef, qval |-> <<>>,
     panicked |-> FALSE, before |-> NoView, once |-> NoView,
     dirtyH |-> FALSE, dirtyQ |-> FALSE]

NoResolved == [called |-> FALSE, teeType |-> 0, quote |-> NilRef, err |-> NoError,
               dirty |-> FALSE, afterChange |-> FALSE]

\* An electraBuilder nothing was given to, a BuildState that was not called
\* and a Serialize that was not called.
NoBuilder == [elGenesis |-> NoBlock, shadowForkBlock |-> NoBlock]

NoRun ==
    [pc |-> "idle", genesisBlock |-> NoBlock, steps |-> <<>>,
     state |-> NoVersioned, err |-> NoError, log |-> <<>>]

NoBytes == [isNil |-> TRUE, len |-> 0, offset1 |-> 0]

\* What the codec gives where it is not called.
NoOut == [headerOut |-> 0, sszOut |-> NoBytes, sszErr |-> NoError,
          jsonOut |-> NoBytes, jsonErr |-> NoError]

NoSer ==
    [called |-> FALSE, state |-> NoVersioned, contentType |-> "ContentTypeUnknown",
     out |-> NoOut, bytes |-> NoBytes, err |-> NoError, log |-> <<>>]

\* A TEETypeFromString that was not called.
NoLookup == [called |-> FALSE, name |-> <<>>, teeType |-> 0, found |-> FALSE]

\* ------------------------------------------------------------------------
\* Specification SpecInjector: applyTEEToHeader called directly, as the
\* package's tests call it, on one header, with any tag and blob.
\* ------------------------------------------------------------------------
TagInputs  == {0, 2, 127, 128}
ByteInputs == {0, 65, 200}

RECURSIVE SeqsUpTo(_, _)
SeqsUpTo(S, n) ==
    IF n = 0 THEN {<<>>}
    ELSE LET shorter == SeqsUpTo(S, n - 1)
         IN  shorter \cup {Append(q, b) : q \in {x \in shorter : Len(x) = n - 1}, b \in S}

BlobInputs == SeqsUpTo(ByteInputs, MaxBlobLen)

InitInjector ==
    /\ header \in HeaderInputs
    /\ heap = InitHeap(header)
    /\ cfg = NilConfig
    /\ resolved = NoResolved
    /\ call = NoCall
    /\ bld = NoBuilder
    /\ run = NoRun
    /\ ser = NoSer
    /\ lookup = NoLookup

\* The first call: the caller makes a blob (or passes a nil slice) and a tag.
Inject(t, bytes, nilBlob) ==
    /\ call.n = 0
    /\ LET q   == IF nilBlob THEN NilRef ELSE NewRef(heap)
           hp1 == IF nilBlob THEN heap ELSE Alloc(heap, bytes)
           r   == applyTEEToHeader(header, hp1, t, q)
           c   == [NoCall EXCEPT !.n = 1, !.api = "direct", !.tag = t, !.quote = q,
                                 !.qval = bytes, !.panicked = r.panicked,
                                 !.before = View(header, heap),
                                 !.once = View(r.h, r.heap)]
       IN  Step(Settle(r.h, resolved, c, r.heap))

\* The same call once more, right after the first.
InjectAgain ==
    /\ call.n = 1 /\ ~call.dirtyH /\ ~call.dirtyQ
    /\ LET r == applyTEEToHeader(header, heap, call.tag, call.quote)
           c == [call EXCEPT !.n = 2, !.panicked = call.panicked \/ r.panicked]
       IN  Step(Settle(r.h, resolved, c, r.heap))

\* The caller changes the first byte of the header's slice field.
MutateHeaderBlob ==
    /\ call.n >= 1 /\ ~call.dirtyH
    /\ header.kind = "ptr" /\ header.qkind = "slice" /\ header.qelem = "uint8"
    /\ Len(Bytes(heap, header.qref)) > 0
    /\ heap' = [heap EXCEPT ![header.qref][1] = (@ + 1) % 256]
    /\ call' = [call EXCEPT !.dirtyH = TRUE]
    /\ UNCHANGED <<header, cfg, resolved, bld, run, ser, lookup>>

\* The caller changes the first byte of the blob it passed.
MutateCallerBlob ==
    /\ call.n >= 1 /\ ~call.dirtyQ
    /\ Len(Bytes(heap, call.quote)) > 0
    /\ heap' = [heap EXCEPT ![call.quote][1] = (@ + 1) % 256]
    /\ call' = [call EXCEPT !.dirtyQ = TRUE]
    /\ UNCHANGED <<header, cfg, resolved, bld, run, ser, lookup>>

NextInjector ==
    \/ \E t \in TagInputs, bytes \in BlobInputs : Inject(t, bytes, FALSE)
    \/ \E t \in TagInputs : Inject(t, <<>>, TRUE)
    \/ InjectAgain
    \/ MutateHeaderBlob
    \/ MutateCallerBlob

SpecInjector == InitInjector /\ [][NextInjector]_vars

\* ------------------------------------------------------------------------
\* Specification Spec: the package's exported functions (the Resolver,
\* ApplyDefaultTEEToHeader, ApplyTEEToHeaderFromConfig) called in any order
\* on one header under one configuration, and a caller that writes into the
\* blobs it was given.
\* ------------------------------------------------------------------------
\* "", " ", " TDX\t", "CcA", "sgx"
NameInputs ==
    {<<>>, <<32>>, <<32, 84, 68, 88, 9>>, <<67, 99, 65>>, <<115, 103, 120>>}

VendorInputs == {Unset, 0, 2, 3}

ConfigInputs ==
    {[isNil |-> FALSE, names |-> nm, vendor |-> v, proposer |-> pv,
      genesisDelay |-> NoU64, minGenesisTime |-> NoU64]
        : nm \in {[ok |-> FALSE, val |-> <<>>]} \cup {[ok |-> TRUE, val |-> x] : x \in NameInputs},
          v \in VendorInputs, pv \in VendorInputs}
    \cup {NilConfig}

\* The header of the package's slice test, a header without the fields and a
\* small filled header.
TEEHeaderInputs ==
    {[NoStruct("ptr") EXCEPT !.Slot = 7],
     [NoStruct("ptr") EXCEPT !.tkind = "uint8", !.qkind = "slice", !.qelem = "uint8"],
     [NoStruct("ptr") EXCEPT !.tkind = "int8", !.tval = 9, !.qkind = "array",
                             !.qelem = "uint8", !.qarr = [i \in 1..MaxArrayLen |-> 9]]}

Init ==
    /\ header \in TEEHeaderInputs
    /\ heap = InitHeap(header)
    /\ cfg \in ConfigInputs
    /\ resolved = NoResolved
    /\ call = NoCall
    /\ bld = NoBuilder
    /\ run = NoRun
    /\ ser = NoSer
    /\ lookup = NoLookup

\* A caller calls GetGenesisProposerTEEFields(cfg) and keeps what it returns.
Resolve ==
    /\ ~cfg.isNil
    /\ LET r   == GetGenesisProposerTEEFields(cfg, heap)
           res == [called |-> TRUE, teeType |-> r.teeType, quote |-> r.quote,
                   err |-> r.err, dirty |-> FALSE,
                   afterChange |-> resolved.dirty \/ call.dirtyH]
       IN  Step(Settle(header, res, call, r.heap))

Applied(api, r) ==
    [NoCall EXCEPT !.n = 1, !.api = api, !.panicked = r.panicked,
                   !.before = View(header, heap)]

\* A caller calls ApplyDefaultTEEToHeader(header).
ApplyDefault ==
    /\ call.api \in {"none", "default", "config"}
    /\ LET r == ApplyDefaultTEEToHeader(header, heap)
       IN  Step(Settle(r.h, resolved, Applied("default", r), r.heap))

\* A caller calls ApplyTEEToHeaderFromConfig(header, cfg).
ApplyFromConfig ==
    /\ call.api \in {"none", "default", "config"}
    /\ LET r == ApplyTEEToHeaderFromConfig(header, cfg, heap)
       IN  Step(Settle(r.h, resolved, Applied("config", r), r.heap))

\* The caller overwrites the last byte of the blob the Resolver returned to it.
MutateReturnedBlob ==
    /\ resolved.called /\ ~resolved.dirty
    /\ heap' = [heap EXCEPT ![resolved.quote][Len(heap[resolved.quote])] = (@ + 1) % 256]
    /\ resolved' = [resolved EXCEPT !.dirty = TRUE]
    /\ UNCHANGED <<header, cfg, call, bld, run, ser, lookup>>

\* The caller overwrites the last byte of the header's injected slice field.
MutateInjectedBlob ==
    /\ call.n >= 1 /\ ~call.dirtyH
    /\ header.kind = "ptr" /\ header.qkind = "slice" /\ header.qelem = "uint8"
    /\ Len(Bytes(heap, header.qref)) > 0
    /\ heap' = [heap EXCEPT ![header.qref][Len(heap[header.qref])] = (@ + 1) % 256]
    /\ call' = [call EXCEPT !.dirtyH = TRUE]
    /\ UNCHANGED <<header, cfg, resolved, bld, run, ser, lookup>>

Next ==
    \/ Resolve
    \/ ApplyDefault
    \/ ApplyFromConfig
    \/ MutateReturnedBlob
    \/ MutateInjectedBlob

Spec == Init /\ [][Next]_vars

\* ------------------------------------------------------------------------
\* The electraBuilder. BuildState runs as a sequence of steps, one per call
\* of a collaborator or check, in the order of the code; whether a
\* collaborator fails is its own affair and is chosen at the step.
\* ------------------------------------------------------------------------
\* The header BuildState makes: new, with the shape of the header type the
\* build links (header keeps the shape between the runs).
FreshHeader(h) ==
    [h EXCEPT !.Slot = 0, !.tval = 0, !.qref = NilRef,
              !.qarr = [i \in 1..Len(h.qarr) |-> 0]]

\* elGenesis.ToBlock(): the genesis is kept as the block it makes.
ToBlock(g) == g

\* genesisBlock := b.shadowForkBlock, or b.elGenesis.ToBlock() when nil.
SelectBlock(b) ==
    IF b.shadowForkBlock.isNil THEN ToBlock(b.elGenesis) ELSE b.shadowForkBlock

\* SetShadowForkBlock(block), while BuildState is not running.
SetShadowForkBlock(block) ==
    /\ run.pc = "idle"
    /\ bld' = [bld EXCEPT !.shadowForkBlock = block]
    /\ UNCHANGED <<heap, header, cfg, resolved, call, run, ser, lookup>>

\* The caller lets go of what BuildState returned; the builder can be set up
\* and run again.
Discard ==
    /\ run.pc = "done"
    /\ run' = NoRun
    /\ header' = FreshHeader(header)
    /\ heap' = Collect(heap, {hardcodedTEEQuote})
    /\ UNCHANGED <<cfg, resolved, call, bld, ser, lookup>>

\* A step of BuildState ended with an error: BuildState returns (nil, err).
Fail(r, name, e) ==
    [r EXCEPT !.pc = "done", !.steps = Append(@, [step |-> name, ok |-> FALSE]),
              !.state = NoVersioned, !.err = e]

\* A step of BuildState went well: BuildState goes on at next.
Pass(r, name, next) ==
    [r EXCEPT !.pc = next, !.steps = Append(@, [step |-> name, ok |-> TRUE])]

Others == UNCHANGED <<heap, header, cfg, resolved, call, bld, ser, lookup>>

\* BuildState is called: the source block is selected and its extra-data
\* is measured.
BuildStateEnter ==
    /\ run.pc = "idle"
    /\ LET genesisBlock == SelectBlock(bld)
           r == [NoRun EXCEPT !.genesisBlock = genesisBlock]
       IN  run' = IF genesisBlock.extra > 32
                  THEN Fail(r, "extra", "extra data too long")
                  ELSE Pass(r, "extra", "withdrawals")
    /\ Others

\* ComputeWithdrawalsRoot, only for a block that has withdrawals.
StepWithdrawals(ok) ==
    /\ run.pc = "withdrawals"
    /\ run' = IF ~run.genesisBlock.withdrawals
              THEN [run EXCEPT !.pc = "transactions"]
              ELSE IF ~ok
              THEN Fail(run, "ComputeWithdrawalsRoot", "failed to compute withdrawals root")
              ELSE Pass(run, "ComputeWithdrawalsRoot", "transactions")
    /\ Others

\* A variant of the transactions step that goes on after a failure.
StepTransactionsGoOn(ok) ==
    /\ run.pc = "transactions"
    /\ run' = [run EXCEPT !.pc = "blobgas",
                  !.steps = Append(@, [step |-> "ComputeTransactionsRoot", ok |-> ok])]
    /\ Others

\* ComputeTransactionsRoot.
StepTransactions(ok) ==
    /\ run.pc = "transactions"
    /\ run' = IF ~ok
              THEN Fail(run, "ComputeTransactionsRoot", "failed to compute transactions root")
              ELSE Pass(run, "ComputeTransactionsRoot", "blobgas")
    /\ Others

\* The two blob-gas fields of the block must be there.
StepBlobGas ==
    /\ run.pc = "blobgas"
    /\ run' = IF ~run.genesisBlock.blobGasUsed
              THEN Fail(run, "BlobGasUsed", "missing blob-gas-used field")
              ELSE IF ~run.genesisBlock.excessBlobGas
              THEN Fail(Pass(run, "BlobGasUsed", "blobgas"), "ExcessBlobGas",
                        "missing excess-blob-gas field")
              ELSE Pass(Pass(run, "BlobGasUsed", "blobgas"), "ExcessBlobGas", "deposit")
    /\ Others

\* ComputeDepositRoot.
StepDeposit(ok) ==
    /\ run.pc = "deposit"
    /\ run' = IF ~ok
              THEN Fail(run, "ComputeDepositRoot", "failed to compute deposit root")
              ELSE Pass(run, "ComputeDepositRoot", "body")
    /\ Others

\* dynSsz.HashTreeRoot(genesisBlockBody).
StepBody(ok) ==
    /\ run.pc = "body"
    /\ run' = IF ~ok
              THEN Fail(run, "HashTreeRoot", "failed to compute genesis block body root")
              ELSE Pass(run, "HashTreeRoot", "sync")
    /\ Others

\* GetGenesisSyncCommittee.
StepSync(ok) ==
    /\ run.pc = "sync"
    /\ run' = IF ~ok
              THEN Fail(run, "GetGenesisSyncCommittee", "failed to get genesis sync committee")
              ELSE Pass(run, "GetGenesisSyncCommittee", "assemble")
    /\ Others

\* What dynSsz.MarshalSSZ gives for a header: an error, or so many bytes.
MarshalFailed == -1

\* The log lines of the header-size check after the TEE fields are applied.
HeaderSizeLog(headerSSZ) ==
    IF headerSSZ = MarshalFailed THEN <<"warn: failed to marshal header">>
    ELSE IF headerSSZ # 8305 /\ headerSSZ # 112
    THEN <<"info: header size", "warn: unexpected header size">>
    ELSE <<"info: header size">>

\* The rest of BuildState: the timing, the state, the TEE fields of its
\* header, the header-size log and the return of the versioned state.
StepAssemble(headerSSZ) ==
    /\ run.pc = "assemble"
    /\ LET genesisDelay == GetUint64Default(cfg, "GENESIS_DELAY", U64(604800))
           configured   == GetUint64Default(cfg, "MIN_GENESIS_TIME", U64(0))
           minGenesisTime == IF configured = U64(0) THEN run.genesisBlock.time
                             ELSE configured
           genesisState == [isNil |-> FALSE,
                            GenesisTime |-> AddU64(minGenesisTime, genesisDelay),
                            hasHeader |-> TRUE]
           tee == ApplyTEEToHeaderFromConfig(FreshHeader(header), cfg, heap)
           s   == Settle(tee.h, resolved, call, tee.heap)
           versionedState ==
               [isNil |-> FALSE, Version |-> DataVersionElectra,
                variants |-> [NoVersioned.variants EXCEPT ![DataVersionElectra] = genesisState]]
       IN  /\ header' = s.header
           /\ heap' = s.heap
           /\ run' = [Pass(run, "assemble", "done") EXCEPT
                         !.state = versionedState, !.err = NoError,
                         !.log = HeaderSizeLog(headerSSZ)]
    /\ UNCHANGED <<cfg, resolved, call, bld, ser, lookup>>

\* ------------------------------------------------------------------------
\* Specification SpecBuilder: a builder made by NewElectraBuilder from a
\* genesis and a configuration, SetShadowForkBlock and BuildState.
\* ------------------------------------------------------------------------
Block(extra, withdrawals, blobGasUsed, excessBlobGas, time) ==
    [isNil |-> FALSE, extra |-> extra, withdrawals |-> withdrawals,
     blobGasUsed |-> blobGasUsed, excessBlobGas |-> excessBlobGas, time |-> time]

ExtraInputs == {32, 33}

\* Genesis blocks before Shanghai and after Cancun.
GenesisInputs ==
    {Block(x, post, post, post, U64(65535)) : x \in ExtraInputs, post \in BOOLEAN}

ShadowInputs ==
    {Block(x, w, g, e, t) : x \in ExtraInputs, w \in BOOLEAN, g \in BOOLEAN,
                            e \in BOOLEAN, t \in {U64(9), MaxUint64}}

DelayInputs   == {NoU64, U64(5)}
MinTimeInputs == {NoU64, U64(0), U64(100), MaxUint64}

BuilderConfigInputs ==
    {[isNil |-> FALSE, names |-> [ok |-> FALSE, val |-> <<>>], vendor |-> v,
      proposer |-> Unset, genesisDelay |-> d, minGenesisTime |-> m]
        : v \in {Unset, 3}, d \in DelayInputs, m \in MinTimeInputs}

\* The header type without the TEE fields and the one with them.
BuilderHeaderInputs ==
    {NoStruct("ptr"),
     [NoStruct("ptr") EXCEPT !.tkind = "uint8", !.qkind = "slice", !.qelem = "uint8"]}

HeaderSizeInputs == {MarshalFailed, 112, 8305, 500}

\* NewElectraBuilder(elGenesis, clConfig).
InitBuilder ==
    /\ header \in BuilderHeaderInputs
    /\ heap = InitHeap(header)
    /\ cfg \in BuilderConfigInputs
    /\ resolved = NoResolved
    /\ call = NoCall
    /\ bld \in {[NoBuilder EXCEPT !.elGenesis = g] : g \in GenesisInputs}
    /\ run = NoRun
    /\ ser = NoSer
    /\ lookup = NoLookup

NextBuilder ==
    \/ \E block \in ShadowInputs \cup {NoBlock} : SetShadowForkBlock(block)
    \/ BuildStateEnter
    \/ Discard
    \/ \E ok \in BOOLEAN : StepWithdrawals(ok)
    \/ \E ok \in BOOLEAN : StepTransactions(ok)
    \/ StepBlobGas
    \/ \E ok \in BOOLEAN : StepDeposit(ok)
    \/ \E ok \in BOOLEAN : StepBody(ok)
    \/ \E ok \in BOOLEAN : StepSync(ok)
    \/ \E headerSSZ \in HeaderSizeInputs : StepAssemble(headerSSZ)

SpecBuilder == InitBuilder /\ [][NextBuilder]_vars

\* ------------------------------------------------------------------------
\* Serialize. The codec (dynSsz.MarshalSSZ, MarshalJSON) is a collaborator:
\* out holds what it gives in this call,
\*   headerOut : MarshalFailed or the length of the header's bytes
\*   sszOut, sszErr, jsonOut, jsonErr : the bytes and the error
\* and bytes are [len, offset1], offset1 being the little-endian uint32 at
\* expectedFixedEnd.
\* ------------------------------------------------------------------------
expectedFixedEnd == 8 + 32 + 8 + 16 + 8305

Returned(bytes, err, log) == [bytes |-> bytes, err |-> err, log |-> log]

\* A variant of Serialize that refuses the bytes the offset check warns of.
SerializeStrict(state, contentType, out) ==
    IF state.Version # DataVersionElectra
    THEN Returned(NoBytes, "unsupported version", <<>>)
    ELSE CASE contentType = "ContentTypeSSZ" ->
              IF out.sszErr # NoError THEN Returned(NoBytes, out.sszErr, <<>>)
              ELSE IF out.sszOut.len >= expectedFixedEnd + 4
                      /\ out.sszOut.offset1 < expectedFixedEnd
              THEN Returned(NoBytes, "offset points into fixed portion", <<>>)
              ELSE Returned(out.sszOut, NoError, <<>>)
           [] contentType = "ContentTypeJSON" ->
              Returned(out.jsonOut, out.jsonErr, <<>>)
           [] OTHER ->
              Returned(NoBytes, "unsupported content type", <<>>)

Serialize(state, contentType, out) ==
    IF state.Version # DataVersionElectra
    THEN Returned(NoBytes, "unsupported version", <<>>)
    ELSE CASE contentType = "ContentTypeSSZ" ->
              LET Electra == state.variants[DataVersionElectra]
                  before  == IF ~Electra.isNil /\ Electra.hasHeader
                                /\ out.headerOut # MarshalFailed
                             THEN <<"info: header size before state encoding">>
                             ELSE <<>>
                  sszBytes == out.sszOut
                  offsets ==
                      IF sszBytes.len > 8369
                         /\ sszBytes.len >= expectedFixedEnd + 4
                      THEN <<"info: first offset", "info: expected fixed portion">>
                           \o (IF sszBytes.offset1 < expectedFixedEnd
                               THEN <<"warn: offset points into fixed portion">>
                               ELSE <<>>)
                      ELSE <<>>
              IN  IF out.sszErr # NoError THEN Returned(NoBytes, out.sszErr, before)
                  ELSE Returned(sszBytes, NoError,
                                before \o offsets \o <<"info: total size">>)
           [] contentType = "ContentTypeJSON" ->
              Returned(out.jsonOut, out.jsonErr, <<>>)
           [] OTHER ->
              Returned(NoBytes, "unsupported content type", <<>>)

\* The calls of the codec a call of Serialize makes.
CallsHeader(state, contentType) ==
    /\ state.Version = DataVersionElectra /\ contentType = "ContentTypeSSZ"
    /\ ~state.variants[DataVersionElectra].isNil
    /\ state.variants[DataVersionElectra].hasHeader
CallsSSZ(state, contentType) ==
    state.Version = DataVersionElectra /\ contentType = "ContentTypeSSZ"
CallsJSON(state, contentType) ==
    state.Version = DataVersionElectra /\ contentType = "ContentTypeJSON"

\* ------------------------------------------------------------------------
\* Specification SpecSerializer: Serialize called on states of every version.
\* ------------------------------------------------------------------------
VersionedState(v, hasHeader) ==
    [isNil |-> FALSE, Version |-> v,
     variants |-> [NoVersioned.variants EXCEPT
                      ![v] = [isNil |-> FALSE, GenesisTime |-> U64(0),
                              hasHeader |-> hasHeader]]]

StateInputs ==
    {VersionedState(Versions[i], hh) : i \in 1..Len(Versions), hh \in BOOLEAN}

ContentTypeInputs ==
    {"ContentTypeUnknown", "ContentTypeSSZ", "ContentTypeJSON", "ContentTypeOther"}

LenInputs    == {176, 8369, 8370, 8372, 8373, 9000}
OffsetInputs == {0, 176, 8368, 8369, 9000}

BytesOf(n, o) == [isNil |-> FALSE, len |-> n, offset1 |-> o]

\* The bytes the codec can give: the offset is read only from bytes that
\* reach it.
SSZInputs ==
    {BytesOf(n, 0) : n \in {m \in LenInputs : m < expectedFixedEnd + 4}}
    \cup {BytesOf(n, o) : n \in {m \in LenInputs : m >= expectedFixedEnd + 4},
                          o \in OffsetInputs}

\* What the codec gives in a call of Serialize: nothing where it is not called.
OutInputs(state, contentType) ==
    {[headerOut |-> h, sszOut |-> s.b, sszErr |-> s.e, jsonOut |-> j.b, jsonErr |-> j.e]
        : h \in IF CallsHeader(state, contentType) THEN HeaderSizeInputs ELSE {0},
          s \in IF CallsSSZ(state, contentType)
                THEN {[b |-> x, e |-> NoError] : x \in SSZInputs}
                     \cup {[b |-> NoBytes, e |-> "ssz: marshal failed"]}
                ELSE {[b |-> NoBytes, e |-> NoError]},
          j \in IF CallsJSON(state, contentType)
                THEN {[b |-> BytesOf(500, 0), e |-> NoError],
                      [b |-> NoBytes, e |-> "json: marshal failed"]}
                ELSE {[b |-> NoBytes, e |-> NoError]}}

InitSerializer ==
    /\ header = NoStruct("ptr")
    /\ heap = InitHeap(header)
    /\ cfg = NilConfig
    /\ resolved = NoResolved
    /\ call = NoCall
    /\ bld = NoBuilder
    /\ run = NoRun
    /\ ser = NoSer
    /\ lookup = NoLookup

\* A caller calls Serialize(state, contentType) and keeps what it returns.
SerializeCall(state, contentType, out) ==
    /\ LET r == Serialize(state, contentType, out)
       IN  ser' = [called |-> TRUE, state |-> state, contentType |-> contentType,
                   out |-> out, bytes |-> r.bytes, err |-> r.err, log |-> r.log]
    /\ UNCHANGED <<heap, header, cfg, resolved, call, bld, run, lookup>>

NextSerializer ==
    \E state \in StateInputs, contentType \in ContentTypeInputs :
        \E out \in OutInputs(state, contentType) : SerializeCall(state, contentType, out)

SpecSerializer == InitSerializer /\ [][NextSerializer]_vars

\* ------------------------------------------------------------------------
\* Specification SpecLookup: TEETypeFromString called on a name.
\* ------------------------------------------------------------------------
MaxNameLen == 3

\* s S e E v V t T d D x X c C a A, the space, g and the long s (U+017F).
CharInputs ==
    {115, 83, 101, 69, 118, 86, 116, 84, 100, 68, 120, 88, 99, 67, 97, 65,
     32, 103, 383}

\* Nothing, a space, a tab and a space, a no-break space, a line feed, and
\* an underscore.
PadInputs == {<<>>, <<32>>, <<9, 32>>, <<160>>, <<10>>, <<95>>}

\* "sev", "SEV", "Tdx", "tDX", "CcA", "cca", "sgx", "se", "tdxx"
WordInputs ==
    {<<115, 101, 118>>, <<83, 69, 86>>, <<84, 100, 120>>, <<116, 68, 88>>,
     <<67, 99, 65>>, <<99, 99, 97>>, <<115, 103, 120>>, <<115, 101>>,
     <<116, 100, 120, 120>>}

\* Every short name, and the words between two pads.
LookupInputs ==
    SeqsUpTo(CharInputs, MaxNameLen)
    \cup {pre \o w \o post : pre \in PadInputs, w \in WordInputs, post \in PadInputs}

InitLookup ==
    /\ header = NoStruct("ptr")
    /\ heap = InitHeap(header)
    /\ cfg = NilConfig
    /\ resolved = NoResolved
    /\ call = NoCall
    /\ bld = NoBuilder
    /\ run = NoRun
    /\ ser = NoSer
    /\ lookup \in {[NoLookup EXCEPT !.name = n] : n \in LookupInputs}

\* A caller calls TEETypeFromString(name) and keeps what it returns.
LookupCall ==
    /\ ~lookup.called
    /\ LET r == TEETypeFromString(lookup.name)
       IN  lookup' = [lookup EXCEPT !.called = TRUE, !.teeType = r.teeType,
                                    !.found = r.found]
    /\ UNCHANGED <<heap, header, cfg, resolved, call, bld, run, ser>>

NextLookup == LookupCall

SpecLookup == InitLookup /\ [][NextLookup]_vars

\* ------------------------------------------------------------------------
\* Specification SpecFallback: ApplyTEEToHeaderFromConfig as a caller of the
\* package reaches it (specification Spec) and as BuildState reaches it
\* (specification SpecBuilder); a run is of the one kind or of the other.
\* ------------------------------------------------------------------------
InitFallback == Init \/ InitBuilder

Direct  == bld = NoBuilder
Through == bld # NoBuilder

NextFallback ==
    \/ Direct /\ Resolve
    \/ Direct /\ ApplyDefault
    \/ Direct /\ ApplyFromConfig
    \/ Direct /\ MutateReturnedBlob
    \/ Direct /\ MutateInjectedBlob
    \/ Through /\ \E block \in ShadowInputs \cup {NoBlock} : SetShadowForkBlock(block)
    \/ Through /\ BuildStateEnter
    \/ Through /\ Discard
    \/ Through /\ \E ok \in BOOLEAN : StepWithdrawals(ok)
    \/ Through /\ \E ok \in BOOLEAN : StepTransactions(ok)
    \/ Through /\ StepBlobGas
    \/ Through /\ \E ok \in BOOLEAN : StepDeposit(ok)
    \/ Through /\ \E ok \in BOOLEAN : StepBody(ok)
    \/ Through /\ \E ok \in BOOLEAN : StepSync(ok)
    \/ Through /\ \E headerSSZ \in HeaderSizeInputs : StepAssemble(headerSSZ)

SpecFallback == InitFallback /\ [][NextFallback]_vars

\* ------------------------------------------------------------------------
\* Properties of the Injector (specification SpecInjector).
\* ------------------------------------------------------------------------
IsIntKind(k) == k \in UintKinds \cup IntKinds

\* The value an integer field of the kind holds after v (0..255) is stored.
Stored(kind, v) == IF kind = "int8" /\ v >= 128 THEN v - 256 ELSE v

\* The elements an array field of n elements of the kind holds after blob q.
StoredArray(kind, n, q) ==
    [i \in 1..n |-> IF i <= Len(q) THEN Stored(kind, q[i]) ELSE 0]

Now == View(header, heap)

\* C3: structural tolerance.  After the Injector ran on a nil header, a
\* non-pointer or a nil pointer, nothing was changed; on a struct with
\* neither field, nothing was changed; on a struct with exactly one of the
\* two fields, that field was written although the other is absent; every
\* other field is as before; and no call panicked.
C3_StructuralTolerance ==
    (call.n >= 1 /\ ~call.dirtyH /\ header.kind # "ptrscalar") =>
        /\ ~call.panicked
        /\ Now.Slot = call.before.Slot
        /\ header.kind \in {"nil", "value", "nilptr"} => Now = call.before
        /\ header.kind = "ptr" =>
            /\ (header.tkind = "absent" /\ header.qkind = "absent") => Now = call.before
            /\ header.tkind = "absent" => Now.tval = call.before.tval
            /\ header.qkind = "absent" =>
                   /\ Now.qarr = call.before.qarr
                   /\ Now.qnil = call.before.qnil
                   /\ Now.qbytes = call.before.qbytes
            /\ (IsIntKind(header.tkind) /\ header.qkind = "absent") =>
                   Now.tval = Stored(header.tkind, call.tag)
            /\ (header.tkind = "absent" /\ header.qkind = "array" /\ IsIntKind(header.qelem)) =>
                   Now.qarr = StoredArray(header.qelem, Len(header.qarr), call.qval)
            /\ (header.tkind = "absent" /\ header.qkind = "slice" /\ header.qelem = "uint8") =>
                   Now.qbytes = call.qval

\* A header with only the blob field, which the Injector wrote.
C3_Witness ==
    /\ call.n >= 1 /\ ~call.dirtyH
    /\ header.kind = "ptr" /\ header.tkind = "absent"
    /\ header.qkind = "slice" /\ header.qelem = "uint8"
    /\ Now.qbytes = call.qval /\ Now.qbytes # call.before.qbytes
    /\ Now.tval = call.before.tval /\ Now.Slot = call.before.Slot

BothFields(h) ==
    /\ h.kind = "ptr"
    /\ IsIntKind(h.tkind)
    /\ \/ h.qkind = "array" /\ h.qelem = "uint8"
       \/ h.qkind = "slice" /\ h.qelem = "uint8"

\* What C4 says of the blob field, and of the blob and the default blob.
BlobWritten ==
    /\ header.qkind = "array" =>
           \A i \in 1..Len(header.qarr) :
               header.qarr[i] = IF i <= Len(call.qval) THEN call.qval[i] ELSE 0
    /\ header.qkind = "slice" =>
           /\ ~call.dirtyH => Bytes(heap, header.qref) = call.qval
           /\ header.qref \notin {NilRef, call.quote, hardcodedTEEQuote}
           /\ ~call.dirtyQ => Bytes(heap, call.quote) = call.qval
           /\ heap[hardcodedTEEQuote] = makeTEEQuote

C10_Idempotent ==
    (call.n = 2 /\ ~call.dirtyH) => Now = call.once

\* Two runs on a filled header with a slice blob field, which the first run
\* changed.
C10_Witness ==
    /\ call.n = 2 /\ ~call.dirtyH
    /\ header.kind = "ptr" /\ header.qkind = "slice" /\ header.qelem = "uint8"
    /\ Len(call.qval) > 0
    /\ call.once # call.before
    /\ Now = call.once

\* ------------------------------------------------------------------------
\* Properties of the Resolver (specification Spec).
\* ------------------------------------------------------------------------
\* The configuration names a vendor the name table knows.
ValidMnemonic(c) ==
    /\ ~c.isNil /\ c.names.ok /\ c.names.val # <<>>
    /\ TEETypeFromString(c.names.val).found

InRange(v) == v >= 0 /\ v <= 2

\* TEE_VENDOR, 0 when unset; TEE_PROPOSER_VENDOR, TEE_VENDOR's when unset.
EffVendor(c)   == IF c.vendor = Unset THEN 0 ELSE c.vendor
EffProposer(c) == IF c.proposer = Unset THEN EffVendor(c) ELSE c.proposer

\* C1: without a valid mnemonic vendor name, the Resolver returns an error
\* when TEE_VENDOR is outside [0,2], an error when TEE_PROPOSER_VENDOR is
\* outside [0,2], and otherwise no error and the TEE_PROPOSER_VENDOR value
\* (TEE_VENDOR's when unset, 0 when that is unset too).
C1_RangeChecked ==
    (resolved.called /\ ~ValidMnemonic(cfg)) =>
        /\ ~InRange(EffVendor(cfg)) => resolved.err # NoError
        /\ ~InRange(EffProposer(cfg)) => resolved.err # NoError
        /\ (InRange(EffVendor(cfg)) /\ InRange(EffProposer(cfg))) =>
               resolved.err = NoError /\ resolved.teeType = EffProposer(cfg)

\* An unknown name, TEE_VENDOR 2 and no override: the Resolver returned 2.
C1_Witness ==
    /\ resolved.called /\ ~ValidMnemonic(cfg)
    /\ cfg.names.ok /\ cfg.names.val # <<>>
    /\ cfg.vendor = 2 /\ cfg.proposer = Unset
    /\ resolved.err = NoError /\ resolved.teeType = 2

\* C2: first match wins.  With a non-empty name the table knows, the
\* Resolver returns that name's tag and no error, whatever TEE_VENDOR and
\* TEE_PROPOSER_VENDOR are; with an empty, absent or unknown name it returns
\* the tag and the error it returns for the same configuration without the
\* name.
C2_MnemonicFirst ==
    resolved.called =>
        IF ValidMnemonic(cfg)
        THEN /\ resolved.err = NoError
             /\ resolved.teeType = TEETypeFromString(cfg.names.val).teeType
        ELSE LET r == GetGenesisProposerTEEFields(
                          [cfg EXCEPT !.names = [ok |-> FALSE, val |-> <<>>]], heap)
             IN  /\ resolved.err = r.err
                 /\ resolved.teeType = r.teeType
                 /\ resolved.err # NoError =>
                        ~InRange(EffVendor(cfg)) \/ ~InRange(EffProposer(cfg))

\* " TDX\t" beside two integer keys out of range: the Resolver returned 1.
C2_Witness ==
    /\ resolved.called /\ ValidMnemonic(cfg)
    /\ cfg.vendor = 3 /\ cfg.proposer = 3
    /\ resolved.err = NoError /\ resolved.teeType = 1

\* The default blob as the claim describes it: byte i is character i mod 16
\* of "PoTE-genesis-TEE", for 0 <= i < 8192.
MarkerPoTE == <<80, 111, 84, 69, 45, 103, 101, 110, 101, 115, 105, 115, 45, 84, 69, 69>>
ClaimedDefaultBlob == [i \in 1..8192 |-> MarkerPoTE[((i - 1) % 16) + 1]]

\* C9: whenever the Resolver has returned (with or without an error), the
\* blob it returned is 8192 bytes long and equal to the default blob, also
\* after earlier calls of the Resolver and the Injector and after the caller
\* wrote into a blob returned earlier or into the header's injected field.
C9_BlobIsDefault ==
    (resolved.called /\ ~resolved.dirty) =>
        /\ Len(heap[resolved.quote]) = 8192
        /\ heap[resolved.quote] = ClaimedDefaultBlob

\* A call that returned an error, made after the caller had written into an
\* earlier blob or the injected header field.
C9_Witness ==
    /\ resolved.called /\ ~resolved.dirty
    /\ resolved.afterChange /\ call.dirtyH
    /\ resolved.err # NoError
    /\ heap[resolved.quote] = ClaimedDefaultBlob

\* ------------------------------------------------------------------------
\* Properties of the Builder (specification SpecBuilder).
\* ------------------------------------------------------------------------
Ran(name) == \E i \in 1..Len(run.steps) : run.steps[i].step = name

RootSteps ==
    {"ComputeWithdrawalsRoot", "ComputeTransactionsRoot", "ComputeDepositRoot",
     "HashTreeRoot"}

RejectedBlock(b) == b.extra > 32 \/ ~b.blobGasUsed \/ ~b.excessBlobGas

\* C5: when BuildState runs on a source block whose extra-data is longer
\* than 32 bytes or that lacks blob-gas-used or excess-blob-gas, no root
\* computation (withdrawals, transactions, deposits, block body) is invoked,
\* and the error it returns is the extra-data or the missing-field error.
C5_RejectedBeforeRoots ==
    (run.pc # "idle" /\ RejectedBlock(run.genesisBlock)) =>
        /\ \A name \in RootSteps : ~Ran(name)
        /\ run.pc = "done" =>
               run.err \in {"extra data too long", "missing blob-gas-used field",
                            "missing excess-blob-gas field"}

\* The steps of BuildState in the order of execution, and the error of each.
StepOrder ==
    <<"extra", "ComputeWithdrawalsRoot", "ComputeTransactionsRoot", "BlobGasUsed",
      "ExcessBlobGas", "ComputeDepositRoot", "HashTreeRoot",
      "GetGenesisSyncCommittee", "assemble">>

Position(name) == CHOOSE i \in 1..Len(StepOrder) : StepOrder[i] = name

ErrorOf(name) ==
    CASE name = "extra"                   -> "extra data too long"
      [] name = "ComputeWithdrawalsRoot"  -> "failed to compute withdrawals root"
      [] name = "ComputeTransactionsRoot" -> "failed to compute transactions root"
      [] name = "BlobGasUsed"             -> "missing blob-gas-used field"
      [] name = "ExcessBlobGas"           -> "missing excess-blob-gas field"
      [] name = "ComputeDepositRoot"      -> "failed to compute deposit root"
      [] name = "HashTreeRoot"            -> "failed to compute genesis block body root"
      [] name = "GetGenesisSyncCommittee" -> "failed to get genesis sync committee"
      [] OTHER                            -> NoError

\* Whether a check of the block holds, whatever was recorded of it.
Holds(s) ==
    CASE s.step = "extra"         -> run.genesisBlock.extra <= 32
      [] s.step = "BlobGasUsed"   -> run.genesisBlock.blobGasUsed
      [] s.step = "ExcessBlobGas" -> run.genesisBlock.excessBlobGas
      [] OTHER                    -> s.ok

OnlyElectra(state) ==
    /\ state.Version = "electra"
    /\ \A v \in DOMAIN state.variants : state.variants[v].isNil <=> v # "electra"

\* C6: BuildState is fail-fast and all-or-nothing: the steps run in the order
\* of execution, a step that fails is the last step that runs and its error
\* is the one returned; a run returns either a state and no error or no
\* state and an error; a returned state has Version Electra, its Electra
\* variant non-empty and every other variant empty.
C6_FailFast ==
    LET n == Len(run.steps) IN
    /\ \A i \in 1..n : \A j \in 1..n :
           i < j => Position(run.steps[i].step) < Position(run.steps[j].step)
    /\ \A i \in 1..n : run.steps[i].ok = Holds(run.steps[i])
    /\ \A i \in 1..n : ~Holds(run.steps[i]) =>
           /\ i = n
           /\ run.pc = "done"
           /\ run.err = ErrorOf(run.steps[i].step)
    /\ run.pc = "done" =>
           /\ \/ ~run.state.isNil /\ run.err = NoError
              \/ run.state.isNil /\ run.err # NoError
           /\ run.err # NoError => ~Holds(run.steps[n])
           /\ ~run.state.isNil => OnlyElectra(run.state)

\* C6 happens: the last collaborator fails, after every other step went well.
C6_Witness ==
    /\ run.pc = "done"
    /\ run.state.isNil
    /\ run.err = "failed to get genesis sync committee"
    /\ Ran("ComputeWithdrawalsRoot") /\ Ran("HashTreeRoot")

\* s is a + b in unsigned 64-bit arithmetic: the limbs add up with carries
\* of 0 or 1, and the carry out of the last limb is lost.
IsSum64(s, a, b) ==
    \E c \in [0..4 -> {0, 1}] :
        /\ c[0] = 0
        /\ \A i \in 1..4 : a[i] + b[i] + c[i - 1] = s[i] + Limb * c[i]

SelectedBlock ==
    IF bld.shadowForkBlock.isNil THEN bld.elGenesis ELSE bld.shadowForkBlock

ClaimedBase ==
    IF cfg.minGenesisTime # NoU64 /\ cfg.minGenesisTime # <<0, 0, 0, 0>>
    THEN cfg.minGenesisTime
    ELSE SelectedBlock.time

ClaimedDelay ==
    IF cfg.genesisDelay = NoU64 THEN <<14976, 9, 0, 0>> ELSE cfg.genesisDelay

\* C7: the GenesisTime of a state BuildState returns is base + GENESIS_DELAY
\* (604800 = 9 * 65536 + 14976 when not configured) in unsigned 64-bit
\* arithmetic; base is MIN_GENESIS_TIME when configured and not zero, and
\* otherwise the timestamp of the shadow-fork block if one was set, of the
\* execution-layer genesis block if none was.
C7_GenesisTime ==
    (run.pc = "done" /\ ~run.state.isNil) =>
        IsSum64(run.state.variants["electra"].GenesisTime, ClaimedBase, ClaimedDelay)

\* C7 happens: a shadow-fork block of the largest timestamp, no minimum
\* genesis time and the default delay: the sum wraps around.
C7_Witness ==
    /\ run.pc = "done" /\ ~run.state.isNil
    /\ ~bld.shadowForkBlock.isNil /\ bld.shadowForkBlock.time = MaxUint64
    /\ cfg.minGenesisTime = NoU64 /\ cfg.genesisDelay = NoU64
    /\ run.state.variants["electra"].GenesisTime = <<14975, 9, 0, 0>>

\* ------------------------------------------------------------------------
\* Properties of the Serializer (specification SpecSerializer).
\* ------------------------------------------------------------------------
Supported(contentType) == contentType \in {"ContentTypeSSZ", "ContentTypeJSON"}

\* What the codec gave for the format asked for.
CodecBytes == IF ser.contentType = "ContentTypeSSZ" THEN ser.out.sszOut ELSE ser.out.jsonOut
CodecError == IF ser.contentType = "ContentTypeSSZ" THEN ser.out.sszErr ELSE ser.out.jsonErr

GivesCodecResult ==
    \/ CodecError # NoError /\ ser.err = CodecError
                            /\ (ser.contentType = "ContentTypeSSZ" => ser.bytes.isNil)
    \/ CodecError = NoError /\ ser.err = NoError /\ ser.bytes = CodecBytes

\* C8 as claimed: Serialize returns the unsupported-format error and no
\* bytes for every format other than SSZ and JSON, the unsupported-version
\* error and no bytes for SSZ when the version is not Electra, and the
\* codec's bytes or error for a supported version and format.
C8_AsClaimed ==
    ser.called =>
        /\ ~Supported(ser.contentType) =>
               ser.err = "unsupported content type" /\ ser.bytes.isNil
        /\ (ser.contentType = "ContentTypeSSZ" /\ ser.state.Version # "electra") =>
               ser.err = "unsupported version" /\ ser.bytes.isNil
        /\ (Supported(ser.contentType) /\ ser.state.Version = "electra") =>
               GivesCodecResult

\* C8: Serialize returns the unsupported-version error and no bytes for
\* every format when the version is not Electra; for an Electra state it
\* returns the unsupported-format error and no bytes for every format other
\* than SSZ and JSON, and otherwise the codec's bytes or the codec's error,
\* whatever the header-size and first-offset checks logged.
C8_VersionFirst ==
    ser.called =>
        /\ ser.state.Version # "electra" =>
               ser.err = "unsupported version" /\ ser.bytes.isNil
        /\ (ser.state.Version = "electra" /\ ~Supported(ser.contentType)) =>
               ser.err = "unsupported content type" /\ ser.bytes.isNil
        /\ (ser.state.Version = "electra" /\ Supported(ser.contentType)) =>
               GivesCodecResult

\* C8 happens: the offset check warns of the bytes of an Electra state, and
\* Serialize returns them.
C8_Witness ==
    /\ ser.called
    /\ ser.state.Version = "electra" /\ ser.contentType = "ContentTypeSSZ"
    /\ \E i \in 1..Len(ser.log) : ser.log[i] = "warn: offset points into fixed portion"
    /\ ser.out.headerOut = MarshalFailed
    /\ ~ser.bytes.isNil /\ ser.bytes = ser.out.sszOut /\ ser.err = NoError

\* ------------------------------------------------------------------------
\* Properties of the lookup (specification SpecLookup).
\* ------------------------------------------------------------------------
\* White space: the ASCII white space, the next line and the no-break space.
IsWhite(c) == c \in {9, 10, 11, 12, 13, 32, 133, 160}

\* name is the word (in small letters), each letter in either case, between
\* white space only.
Spells(name, word) ==
    \E i \in 0..Len(name) :
        /\ i + Len(word) <= Len(name)
        /\ \A k \in 1..i : IsWhite(name[k])
        /\ \A k \in 1..Len(word) :
               name[i + k] = word[k] \/ name[i + k] = word[k] - 32
        /\ \A k \in (i + Len(word) + 1)..Len(name) : IsWhite(name[k])

\* C11: TEETypeFromString finds a name that spells sev, tdx or cca, whatever
\* the case of its letters and the white space around it, as 0, 1 and 2; for
\* every other name it reports found = FALSE.
C11_Lookup ==
    lookup.called =>
        /\ Spells(lookup.name, <<115, 101, 118>>) => lookup.found /\ lookup.teeType = 0
        /\ Spells(lookup.name, <<116, 100, 120>>) => lookup.found /\ lookup.teeType = 1
        /\ Spells(lookup.name, <<99, 99, 97>>)    => lookup.found /\ lookup.teeType = 2
        /\ (~Spells(lookup.name, <<115, 101, 118>>)
            /\ ~Spells(lookup.name, <<116, 100, 120>>)
            /\ ~Spells(lookup.name, <<99, 99, 97>>)) => ~lookup.found

\* C11 happens: " \ttDX" followed by a no-break space is found as TDX.
C11_Witness ==
    /\ lookup.called
    /\ lookup.name = <<9, 32, 116, 68, 88, 160>>
    /\ lookup.found /\ lookup.teeType = 1

\* ------------------------------------------------------------------------
\* Properties of the fallback (specification SpecFallback).
\* ------------------------------------------------------------------------
\* The Resolver returns an error for the configuration: no name it knows,
\* and TEE_VENDOR or TEE_PROPOSER_VENDOR outside [0,2].
ResolverFails(c) ==
    /\ ~c.isNil
    /\ ~(c.names.ok /\ \E w \in {<<115, 101, 118>>, <<116, 100, 120>>, <<99, 99, 97>>} :
                           Spells(c.names.val, w))
    /\ ~InRange(EffVendor(c)) \/ ~InRange(EffProposer(c))

\* A header as ApplyDefaultTEEToHeader leaves it: tag 0 and the default blob
\* in the fields that exist, everything else as it was before.
DefaultsOn(before) ==
    [Slot   |-> before.Slot,
     tval   |-> IF IsIntKind(header.tkind) THEN 0 ELSE before.tval,
     qarr   |-> IF header.qkind = "array" /\ IsIntKind(header.qelem)
                THEN StoredArray(header.qelem, Len(header.qarr), ClaimedDefaultBlob)
                ELSE before.qarr,
     qnil   |-> IF header.qkind = "slice" /\ header.qelem = "uint8"
                THEN FALSE ELSE before.qnil,
     qbytes |-> IF header.qkind = "slice" /\ header.qelem = "uint8"
                THEN ClaimedDefaultBlob ELSE before.qbytes]

BuildErrors == {ErrorOf(StepOrder[i]) : i \in 1..Len(StepOrder)} \ {NoError}

\* C12: after ApplyTEEToHeaderFromConfig ran with a nil configuration or one
\* the Resolver returns an error for, the header is as ApplyDefaultTEEToHeader
\* leaves it and the call did not fail; and BuildState returns no error but
\* that of a step of its own that failed: when every step goes well it
\* returns a state, whose header holds the defaults when the Resolver fails.
C12_Fallback ==
    /\ (call.api = "config" /\ ~call.dirtyH /\ (cfg.isNil \/ ResolverFails(cfg))) =>
           /\ ~call.panicked
           /\ Now = DefaultsOn(call.before)
    /\ run.pc = "done" =>
           /\ run.err \in BuildErrors \cup {NoError}
           /\ (\A i \in 1..Len(run.steps) : Holds(run.steps[i])) =>
                  /\ run.err = NoError /\ ~run.state.isNil
                  /\ ResolverFails(cfg) =>
                         Now = DefaultsOn(View(FreshHeader(header), heap))

\* C12 happens: BuildState returns a state under TEE_VENDOR = 3, and the
\* header of the build that has the fields holds tag 0 and the default blob.
C12_Witness ==
    /\ run.pc = "done" /\ ~run.state.isNil /\ run.err = NoError
    /\ cfg.vendor = 3 /\ ResolverFails(cfg)
    /\ header.qkind = "slice" /\ header.tval = 0
    /\ Bytes(heap, header.qref) = ClaimedDefaultBlob

====
